---- MODULE Spec2Model ----
(***************************************************************************)
(* Model of the two decision procedures of the trading bot:                *)
(*   - MovingAverageCrossoverStrategy (src/core_logic/forex_strategies.py) *)
(*   - AdvancedOptionsStrategy (src/core_logic/advanced_options_strategy.py)*)
(*                                                                         *)
(* Numbers.  Python floats are modelled as exact rationals on a grid:      *)
(* a moving average is stored as the mean multiplied by                    *)
(* short_window * long_window, so that two means compare as integers.      *)
(***************************************************************************)
EXTENDS Integers, Sequences, FiniteSets, TLC

VARIABLES
    \* ---- MovingAverageCrossoverStrategy object ----
    short_window,      \* self.short_window
    long_window,       \* self.long_window
    prices,            \* self.prices, a deque(maxlen = long_window + 5)
    short_ma,          \* self.short_ma
    long_ma,           \* self.long_ma
    data_initialized,  \* self.data_initialized
    position,          \* self.position
    \* ---- the last call made on the strategy object (observation) ----
    ma_op,             \* "new" | "init" | "tick" | "update"
    ma_arg,            \* the bars / price / position argument of the last call
    ma_ret,            \* the value the last call returned
    ma_fresh,          \* TRUE from a successful initialization to the next tick
    ma_calls,          \* number of calls made on the strategy object so far
    \* ---- AdvancedOptionsStrategy object ----
    config,            \* self.config
    \* ---- the arguments of one define_orders / _passes_iv_filter call ----
    chain,             \* kwargs['options_chain'] (<<>> also stands for None)
    trade_signal,      \* signals.iloc[-1]['positions']
    account_balance,   \* account_balance, in dollars
    underlying_price,  \* kwargs.get('underlying_price')
    underlying_hv,     \* kwargs.get('underlying_hv')
    now_tick,          \* datetime.now(): ticks elapsed since midnight today
    \* ---- the outcome of the call ----
    opt_pc,            \* "idle" | "ready" | "done" | "iv_ready" | "iv_done"
    orders,            \* the list define_orders returned
    raised,            \* TRUE when define_orders ended with an exception
    selected,          \* index in chain of selected_contract, 0 when none
    iv_result,         \* the value _passes_iv_filter returned
    \* ---- a run of the forex strategy (observation) ----
    signals,           \* the non-HOLD signals on_new_tick returned, in order
    run_prev,          \* self.prices as it was before the last call
    \* ---- the bot process (src/options_trading_bot/main.py) ----
    cycle,             \* "idle" | "options" | "forex": the cycle main runs
    SUBMIT_ORDERS_TO_BROKER,  \* config.SUBMIT_ORDERS_TO_BROKER
    broker_orders,     \* orders handed to a broker (Tradier or IB) so far
    bot_pc,            \* position of the cycle, see the two cycles below
    current_ticks,     \* IBClient.current_ticks[STREAM_DATA_REQ_ID]
    tick_is_new,       \* TRUE when tickPrice ran since the last iteration
    snapshots,         \* the option snapshots the data source returned
    db_rows,           \* the rows of table trading_signals (asset symbols)
    log_returns,       \* what each log_signal call of the cycle returned
    db_open,           \* the database connection is open
    \* ---- the alert API (src/api_services/alert_api.py) ----
    alert_log,         \* alert_log, each alert named by its receipt number
    alerts_limit,      \* the limit of the last get_alerts call
    alerts_ret,        \* the list the last get_alerts call returned
    \* ---- IBClient, one historical request (reqId) ----
    historical_data,   \* len(self.historical_data[reqId])
    end_flag,          \* self.historical_data_end_flags.get(reqId, False)
    active,            \* reqId in self.active_requests
    gh_pc,             \* the calling thread's position
    gh_ret,            \* what get_historical_bars returned
    api_pc,            \* the API thread's position
    flag_seen          \* the end flag was set before the timeout expired

ma_vars == <<short_window, long_window, prices, short_ma, long_ma,
             data_initialized, position, ma_op, ma_arg, ma_ret, ma_fresh,
             ma_calls>>

opt_vars == <<config, chain, trade_signal, account_balance, underlying_price,
              underlying_hv, now_tick, opt_pc, orders, raised, selected,
              iv_result>>

run_vars == <<signals, run_prev>>

bot_vars == <<cycle, SUBMIT_ORDERS_TO_BROKER, broker_orders, bot_pc,
              current_ticks, tick_is_new, snapshots, db_rows, log_returns,
              db_open>>

alert_vars == <<alert_log, alerts_limit, alerts_ret>>

hist_vars == <<historical_data, end_flag, active, gh_pc, gh_ret, api_pc,
               flag_seen>>

sys_vars == <<run_vars, bot_vars, alert_vars, hist_vars>>

vars == <<ma_vars, opt_vars, sys_vars>>

----------------------------------------------------------------------------
(* Bounds *)

MaxPrice == 2     \* tick prices and bar closes range over 1..MaxPrice
MaxBars  == 2     \* longest historical bar list handed to initialization
MaxPos   == 2     \* largest magnitude of an update_position argument
MaxCalls == 3     \* calls made on one strategy object in a run
MaxChain == 2     \* longest options chain handed to define_orders
MaxVal   == 3     \* IV, percentile, HV and IV bounds range over 0..MaxVal
TicksPerDay == 2  \* resolution of the evaluation instant within a day
MaxRun   == 7     \* calls made in a run of initialization and ticks
MaxTick  == 3     \* tick prices of a run range over 0..MaxTick
MaxAlerts == 3    \* alerts the alert API receives in a run

(* The slack of the price deque: deque(maxlen = long_window + 5). *)
DequeSlack == 5

(* "if len(orders_to_place) > 5": the most orders one cycle submits. *)
MaxBulk == 5

(* "(bid_price + ask_price) / 2.0": forex prices are kept in halves. *)
HalfUnits == 2

(* The error codes IBClient.error treats as the end of a historical
   request: "HMDS query returned no data" and "No security definition". *)
NoDataCode == 162
NoSecurityCode == 200

(* The (short_window, long_window) pairs a strategy is constructed with:
   the short window below and above the long one. *)
WindowConfigs == {<<1, 2>>, <<2, 1>>}

----------------------------------------------------------------------------
(* Values: a Python value that is a number, None or NaN. *)

Num(n)  == [k |-> "num", v |-> n]
NoneVal == [k |-> "none", v |-> 0]
NaNVal  == [k |-> "nan", v |-> 0]

IsNone(x) == x.k = "none"
IsNaN(x)  == x.k = "nan"

(* Python/IEEE comparisons: any comparison with NaN is false. *)
NumLe(a, b) == a.k = "num" /\ b.k = "num" /\ a.v <= b.v
NumLt(a, b) == a.k = "num" /\ b.k = "num" /\ a.v < b.v
NumGe(a, b) == NumLe(b, a)
NumGt(a, b) == NumLt(b, a)

----------------------------------------------------------------------------
(* Sequence helpers *)

RECURSIVE SumSeq(_)
SumSeq(s) == IF s = <<>> THEN 0 ELSE Head(s) + SumSeq(Tail(s))

(* s[-n:] for 0 < n; the whole of s when it is shorter than n. *)
LastN(s, n) ==
    IF Len(s) <= n THEN s ELSE SubSeq(s, Len(s) - n + 1, Len(s))

(* An append that drops the new element at capacity. *)
DequeAppend_dropNewest(dq, x, maxlen) ==
    IF Len(dq) >= maxlen THEN dq ELSE Append(dq, x)

(* deque.append with maxlen: the oldest element is dropped at capacity. *)
DequeAppend(dq, x, maxlen) ==
    IF Len(dq) >= maxlen THEN Append(Tail(dq), x) ELSE Append(dq, x)

RECURSIVE DequeExtend(_, _, _)
DequeExtend(dq, xs, maxlen) ==
    IF xs = <<>> THEN dq
    ELSE DequeExtend(DequeAppend(dq, Head(xs), maxlen), Tail(xs), maxlen)

(* The mean of the last w elements of s, times sw * lw. *)
ScaledMean(s, w, sw, lw) == (SumSeq(LastN(s, w)) * sw * lw) \div w

(* Series.rolling(window = w).mean().iloc[-1]: NaN below w observations. *)
RollingMeanLast(closes, w, sw, lw) ==
    IF Len(closes) < w THEN NaNVal ELSE Num(ScaledMean(closes, w, sw, lw))

(* DataFrame.sort_values(by = 'date'): insertion of each bar by date. *)
RECURSIVE InsertByDate(_, _)
InsertByDate(sorted, bar) ==
    IF sorted = <<>> THEN <<bar>>
    ELSE IF sorted[Len(sorted)].date <= bar.date THEN Append(sorted, bar)
    ELSE Append(InsertByDate(SubSeq(sorted, 1, Len(sorted) - 1), bar),
                sorted[Len(sorted)])

(* The bars left in the order they were delivered. *)
SortByDate_asGiven(bars) == bars

RECURSIVE SortByDate(_)
SortByDate(bars) ==
    IF bars = <<>> THEN <<>>
    ELSE InsertByDate(SortByDate(SubSeq(bars, 1, Len(bars) - 1)),
                      bars[Len(bars)])

Closes(bars) == [i \in 1..Len(bars) |-> bars[i].close]

----------------------------------------------------------------------------
(* Inputs *)

Prices == 1..MaxPrice

(* Tick prices: the valid ones and a non-positive one. *)
TickPrices == 0..MaxPrice

(* Bar lists: up to MaxBars closes, delivered oldest first (dates 1..n) or
   newest first (dates n..1). *)
BarLists ==
    UNION { { [i \in 1..n |->
                 [date |-> IF oldest_first THEN i ELSE n + 1 - i,
                  close |-> cl[i]]]
              : cl \in [1..n -> Prices], oldest_first \in BOOLEAN }
            : n \in 0..MaxBars }

(* update_position arguments: the documented positions and a magnitude
   outside them on each side. *)
PositionArgs == {0 - MaxPos, 0 - 1, 0, 1, MaxPos}

----------------------------------------------------------------------------
(* MovingAverageCrossoverStrategy *)

(* __init__ *)
MAInit ==
    /\ \E w \in WindowConfigs :
          /\ short_window = w[1]
          /\ long_window = w[2]
    /\ prices = <<>>
    /\ short_ma = NoneVal
    /\ long_ma = NoneVal
    /\ data_initialized = FALSE
    /\ position = 0
    /\ ma_op = "new"
    /\ ma_arg = 0
    /\ ma_ret = "none"
    /\ ma_fresh = FALSE
    /\ ma_calls = 0

(* The length test that rejects the empty bar list only. *)
NotEnoughBars_emptyOnly(bars) == bars = <<>>

(* "not bars or len(bars) < self.long_window" *)
NotEnoughBars(bars) == bars = <<>> \/ Len(bars) < long_window

(* initialize_with_historical_data(bars) *)
initialize_with_historical_data(bars) ==
    /\ ma_op' = "init"
    /\ ma_arg' = bars
    /\ IF NotEnoughBars(bars)
       THEN /\ ma_ret' = "False"
            /\ UNCHANGED <<prices, short_ma, long_ma, data_initialized,
                           ma_fresh>>
       ELSE LET closes == Closes(SortByDate(bars))
                sm == RollingMeanLast(closes, short_window,
                                      short_window, long_window)
                lm == RollingMeanLast(closes, long_window,
                                      short_window, long_window)
            IN  /\ prices' = DequeExtend(prices, LastN(closes, long_window),
                                         long_window + DequeSlack)
                /\ short_ma' = sm
                /\ long_ma' = lm
                /\ IF IsNaN(sm) \/ IsNaN(lm)
                   THEN /\ data_initialized' = FALSE
                        /\ ma_ret' = "False"
                        /\ ma_fresh' = FALSE
                   ELSE /\ data_initialized' = TRUE
                        /\ ma_ret' = "True"
                        /\ ma_fresh' = TRUE
    /\ UNCHANGED <<short_window, long_window, position>>

(* CrossUp with a strict first comparison: a cross that starts from equal
   means is missed. *)
CrossUp_strict(ps, pl, ns, nl) == NumLt(ps, pl) /\ NumGt(ns, nl)

(* The crossover tests of on_new_tick. *)
CrossUp(ps, pl, ns, nl)   == NumLe(ps, pl) /\ NumGt(ns, nl)
CrossDown(ps, pl, ns, nl) == NumGe(ps, pl) /\ NumLt(ns, nl)

(* The "first tick after initialization" test of on_new_tick. *)
NoPreviousMeans(ps, pl) == IsNone(ps) \/ IsNone(pl)

(* A buy guard that ignores the position held. *)
MayBuy_always(pos) == TRUE

(* "if self.position <= 0" and "if self.position >= 0": a crossover is
   acted on only from a flat or opposite position. *)
MayBuy(pos)  == pos <= 0
MaySell(pos) == pos >= 0

(* The tick guard that rejects negative prices only. *)
RejectsTick_negativeOnly(current_price) ==
    ~data_initialized \/ current_price < 0

(* The two early returns of on_new_tick: not initialized, or a
   non-positive price. *)
RejectsTick(current_price) == ~data_initialized \/ current_price <= 0

(* on_new_tick(current_price) *)
on_new_tick(current_price) ==
    /\ ma_op' = "tick"
    /\ ma_arg' = current_price
    /\ ma_fresh' = FALSE
    /\ UNCHANGED <<short_window, long_window, data_initialized>>
    /\ IF RejectsTick(current_price)
       THEN /\ ma_ret' = "HOLD"
            /\ UNCHANGED <<prices, short_ma, long_ma, position>>
       ELSE LET previous_short_ma == short_ma
                previous_long_ma  == long_ma
                np == DequeAppend(prices, current_price,
                                  long_window + DequeSlack)
                ns == Num(ScaledMean(np, short_window,
                                     short_window, long_window))
                nl == Num(ScaledMean(np, long_window,
                                     short_window, long_window))
            IN  /\ prices' = np
                /\ IF Len(np) < short_window
                   THEN /\ ma_ret' = "HOLD"
                        /\ UNCHANGED <<short_ma, long_ma, position>>
                   ELSE IF Len(np) < long_window
                   THEN /\ short_ma' = ns
                        /\ ma_ret' = "HOLD"
                        /\ UNCHANGED <<long_ma, position>>
                   ELSE /\ short_ma' = ns
                        /\ long_ma' = nl
                        /\ IF NoPreviousMeans(previous_short_ma,
                                              previous_long_ma)
                           THEN /\ ma_ret' = "HOLD"
                                /\ UNCHANGED position
                           ELSE IF CrossUp(previous_short_ma,
                                           previous_long_ma, ns, nl)
                           THEN IF MayBuy(position)
                                THEN /\ ma_ret' = "BUY"
                                     /\ position' = 1
                                ELSE /\ ma_ret' = "HOLD"
                                     /\ UNCHANGED position
                           ELSE IF CrossDown(previous_short_ma,
                                             previous_long_ma, ns, nl)
                           THEN IF MaySell(position)
                                THEN /\ ma_ret' = "SELL"
                                     /\ position' = 0 - 1
                                ELSE /\ ma_ret' = "HOLD"
                                     /\ UNCHANGED position
                           ELSE /\ ma_ret' = "HOLD"
                                /\ UNCHANGED position

(* update_position(new_position) *)
update_position(new_position) ==
    /\ position' = new_position
    /\ ma_op' = "update"
    /\ ma_arg' = new_position
    /\ ma_ret' = "none"
    /\ UNCHANGED <<short_window, long_window, prices, short_ma, long_ma,
                   data_initialized, ma_fresh>>

(* A call is made while the run has calls left. *)
CallMade ==
    /\ ma_calls < MaxCalls
    /\ ma_calls' = ma_calls + 1
    /\ UNCHANGED opt_vars
    /\ UNCHANGED sys_vars

InitializeCall ==
    CallMade /\ \E bars \in BarLists : initialize_with_historical_data(bars)

TickCall == CallMade /\ \E p \in TickPrices : on_new_tick(p)

UpdateCall == CallMade /\ \E n \in PositionArgs : update_position(n)

MANext == InitializeCall \/ TickCall \/ UpdateCall

----------------------------------------------------------------------------
(* AdvancedOptionsStrategy                                                 *)
(*                                                                         *)
(* Units: delta, implied volatility, HV, the IV/HV ratio bounds, the       *)
(* spread fraction and the risk fraction are in hundredths; bid and ask    *)
(* are in cents; the account balance is in dollars; an expiration date is  *)
(* a day number counted from today.  A contract field is a value           *)
(* [k, v]: k = "absent" (no such key), "none" (None), "num" (a number),    *)
(* "str" (a string float() parses to v) or "bad" (any other string).       *)

Absent    == [k |-> "absent", v |-> 0]
NumStr(n) == [k |-> "str", v |-> n]
BadStr    == [k |-> "bad", v |-> 0]

Abs(x) == IF x < 0 THEN 0 - x ELSE x

(* dict.get(key, default) *)
GetOr(field, default) == IF field.k = "absent" THEN Num(default) ELSE field

(* dict.get(key): None when the key is absent *)
Get(field) == IF field.k = "absent" THEN NoneVal ELSE field

(* float(x) that yields 0.0 where Python raises. *)
ParseFloat_badAsZero(x) ==
    IF x.k \in {"num", "str"} THEN [ok |-> TRUE, v |-> x.v]
    ELSE [ok |-> TRUE, v |-> 0]

(* float(x): ok is FALSE where Python raises ValueError or TypeError. *)
ParseFloat(x) ==
    IF x.k \in {"num", "str"} THEN [ok |-> TRUE, v |-> x.v]
    ELSE [ok |-> FALSE, v |-> 0]

(* f"{x:.2f}" succeeds for numbers only. *)
FormatsAsFloat(x) == x.k = "num"

IvFilterModes == {"fixed_range", "percentile", "vs_underlying_hv", "none"}

(* self.default_config *)
DefaultConfig ==
    [ iv_filter_mode           |-> "fixed_range",
      target_dte_min           |-> 30,
      target_dte_max           |-> 60,
      target_delta_min         |-> 30,
      target_delta_max         |-> 50,
      target_iv_min            |-> 15,
      target_iv_max            |-> 60,
      target_iv_percentile_min |-> 20,
      target_iv_percentile_max |-> 80,
      iv_to_hv_ratio_min       |-> 100,
      iv_to_hv_ratio_max       |-> 250,
      min_open_interest        |-> 100,
      min_volume               |-> 50,
      max_bid_ask_spread_pct   |-> 10,
      risk_per_trade_pct       |-> 1 ]

(* _calculate_dte rounding up instead of truncating the partial day. *)
CalculateDte_ceil(expiration_date, now) ==
    0 - ((now - expiration_date * TicksPerDay) \div TicksPerDay)

(* _calculate_dte: (expiration midnight - now).days, the floor in days. *)
CalculateDte(expiration_date, now) ==
    (expiration_date * TicksPerDay - now) \div TicksPerDay

(* The fixed_range test with exclusive bounds. *)
PassesFixedRange_exclusive(iv, cfg) ==
    cfg.target_iv_min < iv /\ iv < cfg.target_iv_max

(* The fixed_range branch of _passes_iv_filter. *)
PassesFixedRange(iv, cfg) ==
    cfg.target_iv_min <= iv /\ iv <= cfg.target_iv_max

(* The percentile test that lets a contract without a usable percentile
   through. *)
PassesPercentile_lenient(contract, cfg) ==
    LET pp == ParseFloat(Get(contract.iv_percentile))
    IN  pp.ok => /\ cfg.target_iv_percentile_min <= pp.v
                 /\ pp.v <= cfg.target_iv_percentile_max

(* The percentile branch of _passes_iv_filter: a percentile that is None or
   that float() rejects fails. *)
PassesPercentile(contract, cfg) ==
    LET pp == ParseFloat(Get(contract.iv_percentile))
    IN  /\ pp.ok
        /\ cfg.target_iv_percentile_min <= pp.v
        /\ pp.v <= cfg.target_iv_percentile_max

(* The vs_underlying_hv branch of _passes_iv_filter.  The test
   min <= iv / hv <= max is stated without the division (hv > 0 there). *)
PassesHvRatio(iv, hv, cfg) ==
    /\ ~(IsNone(hv) \/ hv.v <= 0)
    /\ cfg.iv_to_hv_ratio_min * hv.v <= 100 * iv
    /\ 100 * iv <= cfg.iv_to_hv_ratio_max * hv.v

(* The mode dispatch of _passes_iv_filter for a parsed IV. *)
PassesMode(iv, contract, hv, cfg) ==
    LET mode == cfg.iv_filter_mode
    IN  IF mode = "none" THEN TRUE
        ELSE IF mode = "fixed_range" THEN PassesFixedRange(iv, cfg)
        ELSE IF mode = "percentile" THEN PassesPercentile(contract, cfg)
        ELSE IF mode = "vs_underlying_hv" THEN PassesHvRatio(iv, hv, cfg)
        ELSE TRUE

(* _passes_iv_filter that consults the mode 'none' before the IV value. *)
PassesIvFilter_modeFirst(contract, hv, cfg) ==
    LET iv == Get(contract.implied_volatility)
        pf == ParseFloat(iv)
    IN  IF cfg.iv_filter_mode = "none" THEN TRUE
        ELSE IF IsNone(iv) THEN TRUE
        ELSE IF ~pf.ok THEN FALSE
        ELSE PassesMode(pf.v, contract, hv, cfg)

(* _passes_iv_filter that fails a contract with no IV value. *)
PassesIvFilter_strictMissing(contract, hv, cfg) ==
    LET iv == Get(contract.implied_volatility)
        pf == ParseFloat(iv)
    IN  IF ~pf.ok THEN FALSE
        ELSE PassesMode(pf.v, contract, hv, cfg)

(* _passes_iv_filter(contract, underlying_hv) *)
PassesIvFilter(contract, hv, cfg) ==
    LET iv == Get(contract.implied_volatility)
        pf == ParseFloat(iv)
    IN  IF IsNone(iv) THEN TRUE
        ELSE IF ~pf.ok THEN FALSE
        ELSE PassesMode(pf.v, contract, hv, cfg)

(* The quote test of define_orders without the bid <= 0 rejection. *)
PassesQuoteFilter_askOnly(contract, cfg) ==
    LET bid == GetOr(contract.bid, 0).v
        ask == GetOr(contract.ask, 0).v
    IN  /\ ~(ask <= 0)
        /\ ~((ask - bid) * 100 > cfg.max_bid_ask_spread_pct * ask)

(* The quote test of define_orders: bid, ask > 0 and the relative spread. *)
PassesQuoteFilter(contract, cfg) ==
    LET bid == GetOr(contract.bid, 0).v
        ask == GetOr(contract.ask, 0).v
    IN  /\ ~(ask <= 0 \/ bid <= 0)
        /\ ~((ask - bid) * 100 > cfg.max_bid_ask_spread_pct * ask)

(* The filter loop reading a delta that float() rejects as 0.0 instead of
   skipping the contract. *)
IsEligible_badDeltaAsZero(contract, desired_option_type, hv, now, cfg) ==
    LET dte == CalculateDte(contract.expiration_date, now)
        pd  == ParseFloat(GetOr(contract.delta, 0))
    IN  /\ contract.type = desired_option_type
        /\ cfg.target_dte_min <= dte /\ dte <= cfg.target_dte_max
        /\ cfg.target_delta_min <= Abs(pd.v)
        /\ Abs(pd.v) <= cfg.target_delta_max
        /\ PassesIvFilter(contract, hv, cfg)
        /\ ~(GetOr(contract.open_interest, 0).v < cfg.min_open_interest)
        /\ ~(GetOr(contract.volume, 0).v < cfg.min_volume)
        /\ PassesQuoteFilter(contract, cfg)

(* One pass of the filter loop of define_orders: TRUE when the contract is
   appended to eligible_contracts. *)
IsEligible(contract, desired_option_type, hv, now, cfg) ==
    LET dte == CalculateDte(contract.expiration_date, now)
        pd  == ParseFloat(GetOr(contract.delta, 0))
    IN  /\ contract.type = desired_option_type
        /\ cfg.target_dte_min <= dte /\ dte <= cfg.target_dte_max
        /\ pd.ok
        /\ cfg.target_delta_min <= Abs(pd.v)
        /\ Abs(pd.v) <= cfg.target_delta_max
        /\ PassesIvFilter(contract, hv, cfg)
        /\ ~(GetOr(contract.open_interest, 0).v < cfg.min_open_interest)
        /\ ~(GetOr(contract.volume, 0).v < cfg.min_volume)
        /\ PassesQuoteFilter(contract, cfg)

(* eligible_contracts, as the indices in chain order. *)
RECURSIVE EligibleFrom(_, _, _, _, _, _)
EligibleFrom(i, ch, desired_option_type, hv, now, cfg) ==
    IF i > Len(ch) THEN <<>>
    ELSE LET rest == EligibleFrom(i + 1, ch, desired_option_type, hv, now, cfg)
         IN  IF IsEligible(ch[i], desired_option_type, hv, now, cfg)
             THEN <<i>> \o rest ELSE rest

(* The first component of the sort key, doubled: |delta| against the
   midpoint of the delta bounds. *)
DeltaDistance(contract, cfg) ==
    Abs(2 * Abs(ParseFloat(GetOr(contract.delta, 0)).v)
        - (cfg.target_delta_min + cfg.target_delta_max))

(* The sort key with the open interest ascending. *)
SortKeyLess_oiAscending(a, b, cfg) ==
    \/ DeltaDistance(a, cfg) < DeltaDistance(b, cfg)
    \/ /\ DeltaDistance(a, cfg) = DeltaDistance(b, cfg)
       /\ GetOr(a.open_interest, 0).v < GetOr(b.open_interest, 0).v

(* key(a) < key(b) for the sort key (delta distance, -open_interest). *)
SortKeyLess(a, b, cfg) ==
    \/ DeltaDistance(a, cfg) < DeltaDistance(b, cfg)
    \/ /\ DeltaDistance(a, cfg) = DeltaDistance(b, cfg)
       /\ 0 - GetOr(a.open_interest, 0).v < 0 - GetOr(b.open_interest, 0).v

(* list.sort(key = ...): a stable sort of the eligible indices. *)
RECURSIVE InsertByKey(_, _, _, _)
InsertByKey(sorted, i, ch, cfg) ==
    IF sorted = <<>> THEN <<i>>
    ELSE IF SortKeyLess(ch[i], ch[sorted[Len(sorted)]], cfg)
    THEN Append(InsertByKey(SubSeq(sorted, 1, Len(sorted) - 1), i, ch, cfg),
                sorted[Len(sorted)])
    ELSE Append(sorted, i)

RECURSIVE SortEligible(_, _, _)
SortEligible(idx, ch, cfg) ==
    IF idx = <<>> THEN <<>>
    ELSE InsertByKey(SortEligible(SubSeq(idx, 1, Len(idx) - 1), ch, cfg),
                     idx[Len(idx)], ch, cfg)

(* The sizing that rounds the quotient up. *)
Quantity_roundUp(balance, contract, cfg) ==
    0 - ((0 - balance * cfg.risk_per_trade_pct) \div (100 * contract.ask.v))

(* int(trade_risk_amount // max_loss_per_contract) with
   trade_risk_amount = balance * risk / 100 dollars and
   max_loss_per_contract = ask cents / 100 * 100 dollars. *)
Quantity(balance, contract, cfg) ==
    (balance * cfg.risk_per_trade_pct) \div (100 * contract.ask.v)

(* The missing-input test that looks at the chain only. *)
MissingInputs_chainOnly(ch, uprice) == ch = <<>>

(* "not options_chain or underlying_price is None" *)
MissingInputs(ch, uprice) == ch = <<>> \/ IsNone(uprice)

(* define_orders: the outcome [orders, raised, selected]. *)
DefineOrdersResult(ch, signal, balance, uprice, hv, now, cfg) ==
    LET none == [orders |-> <<>>, raised |-> FALSE, selected |-> 0]
    IN  IF MissingInputs(ch, uprice) THEN none
        ELSE IF signal = 0 THEN none
        ELSE
        LET desired_option_type == IF signal > 0 THEN "call" ELSE "put"
            eligible == SortEligible(
                          EligibleFrom(1, ch, desired_option_type, hv, now, cfg),
                          ch, cfg)
        IN  IF eligible = <<>> THEN none
            ELSE
            LET sel == eligible[1]
                selected_contract == ch[sel]
                quantity == Quantity(balance, selected_contract, cfg)
                order == [ symbol    |-> sel,
                           type      |-> "market",
                           side      |-> "buy_to_open",
                           quantity  |-> quantity,
                           price_at_decision |-> selected_contract.ask.v,
                           estimated_cost |->
                               selected_contract.ask.v * quantity,
                           tag       |-> desired_option_type ]
            IN  IF selected_contract.ask.v <= 0
                THEN [none EXCEPT !.selected = sel]
                ELSE IF quantity = 0
                THEN [none EXCEPT !.selected = sel]
                ELSE IF ~( FormatsAsFloat(
                             Get(selected_contract.implied_volatility))
                           /\ FormatsAsFloat(Get(selected_contract.delta)) )
                \* the f-string of the final print raises on 'N/A' / None
                THEN [orders |-> <<>>, raised |-> TRUE, selected |-> sel]
                ELSE [orders |-> <<order>>, raised |-> FALSE, selected |-> sel]

(* The state of the options strategy while another object is exercised. *)
OptIdle ==
    /\ config = DefaultConfig
    /\ chain = <<>>
    /\ trade_signal = 0
    /\ account_balance = 0
    /\ underlying_price = NoneVal
    /\ underlying_hv = NoneVal
    /\ now_tick = 0
    /\ opt_pc = "idle"
    /\ orders = <<>>
    /\ raised = FALSE
    /\ selected = 0
    /\ iv_result = FALSE

(* The state of the forex strategy while another object is exercised. *)
MAIdle ==
    /\ short_window = 1
    /\ long_window = 2
    /\ prices = <<>>
    /\ short_ma = NoneVal
    /\ long_ma = NoneVal
    /\ data_initialized = FALSE
    /\ position = 0
    /\ ma_op = "new"
    /\ ma_arg = 0
    /\ ma_ret = "none"
    /\ ma_fresh = FALSE
    /\ ma_calls = 0

(* No run of the forex strategy is being observed. *)
RunIdle ==
    /\ signals = <<>>
    /\ run_prev = <<>>

(* IBClient.current_ticks[reqId] after request_streaming_ticks cleared it:
   no BID, ASK or LAST key. *)
NoTicks == [LAST |-> NoneVal, BID |-> NoneVal, ASK |-> NoneVal]

(* The bot process is not running. *)
BotIdle ==
    /\ cycle = "idle"
    /\ SUBMIT_ORDERS_TO_BROKER = FALSE
    /\ broker_orders = 0
    /\ bot_pc = "idle"
    /\ current_ticks = NoTicks
    /\ tick_is_new = FALSE
    /\ snapshots = <<>>
    /\ db_rows = <<>>
    /\ log_returns = <<>>
    /\ db_open = FALSE

(* The alert API has received nothing. *)
AlertIdle ==
    /\ alert_log = <<>>
    /\ alerts_limit = 0
    /\ alerts_ret = <<>>

(* IBClient.__init__: empty containers, no request made. *)
HistIdle ==
    /\ historical_data = 0
    /\ end_flag = FALSE
    /\ active = FALSE
    /\ gh_pc = "idle"
    /\ gh_ret = "none"
    /\ api_pc = "idle"
    /\ flag_seen = FALSE

(* Nothing outside the two strategy objects is exercised. *)
SysIdle == RunIdle /\ BotIdle /\ AlertIdle /\ HistIdle

----------------------------------------------------------------------------
(* _passes_iv_filter as a function of its inputs *)

(* A contract that passes every stage of the default configuration for a
   call, 31 days from today. *)
BaseContract ==
    [ type               |-> "call",
      expiration_date    |-> 31,
      delta              |-> Num(35),
      implied_volatility |-> Num(15),
      iv_percentile      |-> Num(80),
      open_interest      |-> Num(100),
      volume             |-> Num(50),
      bid                |-> Num(45),
      ask                |-> Num(50) ]

IvFieldValues ==
    {Absent, NoneVal, BadStr, NumStr(1)} \cup {Num(n) : n \in 0..MaxVal}

PercentileFieldValues ==
    {Absent, BadStr} \cup {Num(n) : n \in 0..MaxVal}

HvValues == {NoneVal} \cup {Num(n) : n \in (0 - 1)..MaxVal}

(* Configurations as the module's own scenarios build them: the defaults
   with the mode and that mode's two bounds overridden. *)
IvConfigs ==
    {[DefaultConfig EXCEPT !.iv_filter_mode = "none"]}
    \cup {[DefaultConfig EXCEPT !.iv_filter_mode = "fixed_range",
             !.target_iv_min = lo, !.target_iv_max = hi]
          : lo \in 0..MaxVal, hi \in 0..MaxVal}
    \cup {[DefaultConfig EXCEPT !.iv_filter_mode = "percentile",
             !.target_iv_percentile_min = lo, !.target_iv_percentile_max = hi]
          : lo \in 0..MaxVal, hi \in 0..MaxVal}
    \cup {[DefaultConfig EXCEPT !.iv_filter_mode = "vs_underlying_hv",
             !.iv_to_hv_ratio_min = 100 * lo, !.iv_to_hv_ratio_max = 100 * hi]
          : lo \in 0..MaxVal, hi \in 0..MaxVal}

IVInit ==
    /\ MAIdle
    /\ SysIdle
    /\ config \in IvConfigs
    /\ \E iv \in IvFieldValues, pct \in PercentileFieldValues :
          chain = << [BaseContract EXCEPT !.implied_volatility = iv,
                                          !.iv_percentile = pct] >>
    /\ underlying_hv \in HvValues
    /\ trade_signal = 0
    /\ account_balance = 0
    /\ underlying_price = NoneVal
    /\ now_tick = 0
    /\ opt_pc = "iv_ready"
    /\ orders = <<>>
    /\ raised = FALSE
    /\ selected = 0
    /\ iv_result = FALSE

PassesIvFilterCall ==
    /\ opt_pc = "iv_ready"
    /\ iv_result' = PassesIvFilter(chain[1], underlying_hv, config)
    /\ opt_pc' = "iv_done"
    /\ UNCHANGED <<config, chain, trade_signal, account_balance,
                   underlying_price, underlying_hv, now_tick, orders, raised,
                   selected>>
    /\ UNCHANGED ma_vars
    /\ UNCHANGED sys_vars

IVNext == PassesIvFilterCall

SpecIV == IVInit /\ [][IVNext]_vars

----------------------------------------------------------------------------
(* define_orders as a function of its inputs *)

(* Contracts that pass every stage under the default bounds in one of the
   two directions: three (|delta|, open interest, quote) shapes. *)
EligibleShapes ==
    { <<35, 100, 45, 50>>, <<45, 250, 180, 200>>, <<30, 250, 45, 50>> }

WellFormedContracts ==
    { [BaseContract EXCEPT
          !.type = t,
          !.delta = Num(IF t = "call" THEN s[1] ELSE 0 - s[1]),
          !.open_interest = Num(s[2]),
          !.bid = Num(s[3]),
          !.ask = Num(s[4])]
      : t \in {"call", "put"}, s \in EligibleShapes }

(* BaseContract with one field at, beyond or without a value. *)
DeviantContracts ==
    {[BaseContract EXCEPT !.expiration_date = d] : d \in {30, 61}}
    \cup {[BaseContract EXCEPT !.delta = v]
          : v \in {Num(29), Num(51), BadStr, Absent}}
    \cup {[BaseContract EXCEPT !.implied_volatility = v]
          : v \in {Num(14), BadStr, Absent}}
    \cup {[BaseContract EXCEPT !.iv_percentile = v]
          : v \in {Num(81), Absent, BadStr}}
    \cup {[BaseContract EXCEPT !.implied_volatility = Absent,
                               !.iv_percentile = BadStr]}
    \cup {[BaseContract EXCEPT !.open_interest = Num(99)]}
    \cup {[BaseContract EXCEPT !.volume = Num(49)]}
    \cup {[BaseContract EXCEPT !.bid = v] : v \in {Num(44), Num(0)}}
    \cup {[BaseContract EXCEPT !.ask = Num(0)]}

ContractSet == WellFormedContracts \cup DeviantContracts

(* Chains of at most MaxChain contracts. *)
Chains == UNION { [1..n -> ContractSet] : n \in 0..MaxChain }

(* (mode, underlying_hv) pairs: an HV is passed in vs_underlying_hv mode
   only, as run_trading_cycle does. *)
ModeAndHv ==
    { <<m, NoneVal>> : m \in IvFilterModes }
    \cup { <<"vs_underlying_hv", Num(15)>> }

TradeSignals == {0 - 1, 0, 1}

Balances == {10000, 0 - 10000}

UnderlyingPrices == {NoneVal, Num(100)}

OrdersInit ==
    /\ MAIdle
    /\ SysIdle
    /\ \E mh \in ModeAndHv :
          /\ config = [DefaultConfig EXCEPT !.iv_filter_mode = mh[1]]
          /\ underlying_hv = mh[2]
    /\ chain \in Chains
    /\ trade_signal \in TradeSignals
    /\ account_balance \in Balances
    /\ underlying_price \in UnderlyingPrices
    /\ now_tick \in 0..(TicksPerDay - 1)
    /\ opt_pc = "ready"
    /\ orders = <<>>
    /\ raised = FALSE
    /\ selected = 0
    /\ iv_result = FALSE

DefineOrdersCall ==
    /\ opt_pc = "ready"
    /\ LET r == DefineOrdersResult(chain, trade_signal, account_balance,
                                   underlying_price, underlying_hv, now_tick,
                                   config)
       IN  /\ orders' = r.orders
           /\ raised' = r.raised
           /\ selected' = r.selected
    /\ opt_pc' = "done"
    /\ UNCHANGED <<config, chain, trade_signal, account_balance,
                   underlying_price, underlying_hv, now_tick, iv_result>>
    /\ UNCHANGED ma_vars
    /\ UNCHANGED sys_vars

OrdersNext == DefineOrdersCall

SpecOrders == OrdersInit /\ [][OrdersNext]_vars

----------------------------------------------------------------------------
(* The life of one AdvancedOptionsStrategy object: construction, then any
   sequence of update_config and define_orders calls. *)

(* An explicit None given as iv_filter_mode. *)
ModeNone == "<None>"

(* The dict with no keys. *)
EmptyDict == [k \in {} |-> 0]

(* {**a, **b}: the keys of both, b taking precedence. *)
DictMerge(a, b) == b @@ a

(* The config dicts a caller passes: a mode (one of the four, a misspelt
   one, None, or no mode key) and, or not, delta bounds that start at 0. *)
ModeDicts ==
    {EmptyDict}
    \cup {[iv_filter_mode |-> m]
          : m \in IvFilterModes \cup {"bogus", ModeNone}}

DeltaDicts == {EmptyDict, [target_delta_min |-> 0]}

ConfigDicts == {DictMerge(m, d) : m \in ModeDicts, d \in DeltaDicts}

(* _validate_config that lets a None mode through. *)
ValidateConfig_noneAllowed(cfg) ==
    cfg.iv_filter_mode \in IvFilterModes \cup {ModeNone}

(* _validate_config: TRUE when it returns, FALSE when it raises
   ValueError. *)
ValidateConfig(cfg) == cfg.iv_filter_mode \in IvFilterModes

(* One-contract chains: BaseContract with each kind of delta field. *)
DeltaFieldValues == {Num(35), Num(0), NumStr(35), Absent, NoneVal, BadStr}

LifeChains == { << [BaseContract EXCEPT !.delta = d] >> : d \in DeltaFieldValues }

(* Before __init__ runs: config holds the dict the caller passes, which
   StrategyBase.__init__ stores as self.config. *)
LifeInit ==
    /\ MAIdle
    /\ SysIdle
    /\ config \in ConfigDicts
    /\ chain = <<>>
    /\ trade_signal = 1
    /\ account_balance = 10000
    /\ underlying_price = Num(100)
    /\ underlying_hv = Num(15)
    /\ now_tick = 0
    /\ opt_pc = "unbuilt"
    /\ orders = <<>>
    /\ raised = FALSE
    /\ selected = 0
    /\ iv_result = FALSE

(* The object exists: __init__ has returned. *)
Built == opt_pc \in {"constructed", "updated", "done"}

(* AdvancedOptionsStrategy.__init__: the defaults merged with the caller's
   dict, then _validate_config; "failed" when it raises. *)
Construct ==
    /\ opt_pc = "unbuilt"
    /\ config' = DictMerge(DefaultConfig, config)
    /\ opt_pc' = IF ValidateConfig(config') THEN "constructed" ELSE "failed"
    /\ UNCHANGED <<chain, trade_signal, account_balance, underlying_price,
                   underlying_hv, now_tick, orders, raised, selected,
                   iv_result>>
    /\ UNCHANGED ma_vars
    /\ UNCHANGED sys_vars

(* StrategyBase.update_config(new_config) *)
update_config(new_config) ==
    /\ Built
    /\ config' = DictMerge(config, new_config)
    /\ opt_pc' = "updated"
    /\ UNCHANGED <<chain, trade_signal, account_balance, underlying_price,
                   underlying_hv, now_tick, orders, raised, selected,
                   iv_result>>
    /\ UNCHANGED ma_vars
    /\ UNCHANGED sys_vars

UpdateConfigCall == \E new_config \in ConfigDicts : update_config(new_config)

(* define_orders on the object, with a bullish signal and every optional
   argument supplied. *)
LifeDefineOrders ==
    /\ Built
    /\ \E ch \in LifeChains :
          /\ chain' = ch
          /\ LET r == DefineOrdersResult(ch, trade_signal, account_balance,
                                         underlying_price, underlying_hv,
                                         now_tick, config)
             IN  /\ orders' = r.orders
                 /\ raised' = r.raised
                 /\ selected' = r.selected
    /\ opt_pc' = "done"
    /\ UNCHANGED <<config, trade_signal, account_balance, underlying_price,
                   underlying_hv, now_tick, iv_result>>
    /\ UNCHANGED ma_vars
    /\ UNCHANGED sys_vars

LifeNext == Construct \/ UpdateConfigCall \/ LifeDefineOrders

SpecLife == LifeInit /\ [][LifeNext]_vars

----------------------------------------------------------------------------
(* A fresh forex strategy; the options strategy is not exercised. *)
MAStart == MAInit /\ OptIdle /\ SysIdle

SpecMA == MAStart /\ [][MANext]_vars

----------------------------------------------------------------------------
(* A run of one forex strategy as run_forex_trading_cycle drives it: the
   initialization, then ticks; update_position is never called.  The run
   is long enough for the price deque to fill and evict. *)
RunInit ==
    /\ MAInit
    /\ OptIdle
    /\ RunIdle
    /\ BotIdle
    /\ AlertIdle
    /\ HistIdle

RunCallMade ==
    /\ ma_calls < MaxRun
    /\ ma_calls' = ma_calls + 1
    /\ run_prev' = prices
    /\ UNCHANGED <<opt_vars, bot_vars, alert_vars, hist_vars>>

RunInitialize ==
    /\ ~data_initialized
    /\ RunCallMade
    /\ \E bars \in BarLists : initialize_with_historical_data(bars)
    /\ UNCHANGED signals

RunTick ==
    /\ RunCallMade
    /\ \E p \in 0..MaxTick : on_new_tick(p)
    /\ signals' = IF ma_ret' = "HOLD" THEN signals
                  ELSE Append(signals, ma_ret')

RunNext == RunInitialize \/ RunTick

SpecRun == RunInit /\ [][RunNext]_vars

----------------------------------------------------------------------------
(* The bot process (src/options_trading_bot/main.py): one run of either
   run_trading_cycle or run_forex_trading_cycle.

   bot_pc, options cycle:  "start" -> "chain" -> "orders" -> "finally"
                           -> "ended"
   bot_pc, forex cycle:    "start" -> "loop" -> "finally" -> "ended"

   Forex prices are in half price units, so that the midpoint of a bid
   and an ask is exact: a broker quote q is the price 2 * q. *)

(* The submission guard that is always open. *)
SubmitEnabled_always == TRUE

(* "if SUBMIT_ORDERS_TO_BROKER" as both cycles test it. *)
SubmitEnabled == SUBMIT_ORDERS_TO_BROKER

(* STRATEGY_CONFIG merged over the defaults by __init__. *)
StrategyConfig ==
    [DefaultConfig EXCEPT !.iv_filter_mode = "vs_underlying_hv",
                          !.min_open_interest = 50,
                          !.min_volume = 20,
                          !.max_bid_ask_spread_pct = 15]

(* One option snapshot of the data source: a call that passes every
   filter of StrategyConfig. *)
BaseSnapshot ==
    [ contract_type      |-> "call",
      expiration_date    |-> 31,
      delta              |-> Num(35),
      implied_volatility |-> Num(30),
      bid                |-> Num(45),
      ask                |-> Num(50),
      volume             |-> Num(50),
      open_interest      |-> Num(100) ]

(* Snapshots with the implied volatility, the delta or the ask left
   None by the data source. *)
SnapshotSet ==
    { [BaseSnapshot EXCEPT !.implied_volatility = iv, !.delta = d, !.ask = a]
      : iv \in {NoneVal, Num(30)}, d \in {NoneVal, Num(35)},
        a \in {NoneVal, Num(50)} }

SnapshotLists == UNION { [1..n -> SnapshotSet] : n \in 0..MaxChain }

(* "x if hasattr(...) and x is not None else 0.0" *)
OrZero(x) == IF IsNone(x) THEN Num(0) ELSE x

(* contract_data of get_options_chain_snapshot for one snapshot. *)
ContractData(snapshot, ticker) ==
    [ symbol             |-> ticker,
      type               |-> snapshot.contract_type,
      expiration_date    |-> snapshot.expiration_date,
      delta              |-> OrZero(snapshot.delta),
      implied_volatility |-> OrZero(snapshot.implied_volatility),
      iv_percentile      |-> Absent,
      bid                |-> OrZero(snapshot.bid),
      ask                |-> OrZero(snapshot.ask),
      volume             |-> OrZero(snapshot.volume),
      open_interest      |-> OrZero(snapshot.open_interest) ]

(* get_options_chain_snapshot: the contracts of the snapshots from the
   i-th on, a contract with ask <= 0 being skipped.  The ticker of a
   contract is the position of its snapshot. *)
RECURSIVE ChainData(_, _)
ChainData(snaps, i) ==
    IF i > Len(snaps) THEN <<>>
    ELSE LET contract_data == ContractData(snaps[i], i)
         IN  IF contract_data.ask.v <= 0 THEN ChainData(snaps, i + 1)
             ELSE <<contract_data>> \o ChainData(snaps, i + 1)

(* order_detail.get(key): None when the order has no such key. *)
OrderGet(order_detail, key) ==
    IF key \in DOMAIN order_detail THEN Num(order_detail[key]) ELSE NoneVal

(* DatabaseLogger.log_signal: the rows after the call and what it returns.
   The INSERT fails on a NULL entry_price (column entry_price REAL NOT
   NULL) and the sqlite3.Error is caught. *)
LogSignal(rows, is_open, asset_symbol, signal_type, entry_price) ==
    IF ~is_open THEN [rows |-> rows, ret |-> FALSE]
    ELSE IF IsNone(entry_price) THEN [rows |-> rows, ret |-> FALSE]
    ELSE [rows |-> Append(rows, [asset_symbol |-> asset_symbol,
                                 signal_type  |-> signal_type,
                                 entry_price  |-> entry_price.v]),
          ret |-> TRUE]

(* The loop of lines 310-330 over orders_to_place from the i-th order on:
   the rows and the returned values after it. *)
RECURSIVE LogOrders(_, _, _, _)
LogOrders(ords, i, rows, rets) ==
    IF i > Len(ords) THEN [rows |-> rows, rets |-> rets]
    ELSE LET order_detail == ords[i]
             signal_type_mapped ==
                 IF order_detail.side = "buy_to_open" THEN "BUY"
                 ELSE IF order_detail.side = "sell_to_open" THEN "SELL"
                 ELSE "none"
             r == LogSignal(rows, TRUE, order_detail.symbol,
                            signal_type_mapped,
                            OrderGet(order_detail, "price"))
         IN  IF signal_type_mapped = "none"
             THEN LogOrders(ords, i + 1, rows, rets)
             ELSE LogOrders(ords, i + 1, r.rows, Append(rets, r.ret))

(* main: the process starts one cycle; DatabaseLogger is constructed (the
   connection opens), the forex strategy is constructed with a short
   window below the long one, the options strategy with STRATEGY_CONFIG. *)
BotInit ==
    /\ MAIdle
    /\ RunIdle
    /\ AlertIdle
    /\ HistIdle
    /\ cycle \in {"options", "forex"}
    /\ SUBMIT_ORDERS_TO_BROKER \in BOOLEAN
    /\ broker_orders = 0
    /\ bot_pc = "start"
    /\ current_ticks = NoTicks
    /\ tick_is_new = FALSE
    /\ snapshots = <<>>
    /\ db_rows = <<>>
    /\ log_returns = <<>>
    /\ db_open = TRUE
    /\ config = StrategyConfig
    /\ chain = <<>>
    /\ trade_signal \in {0, 1}
    /\ account_balance = 10000
    /\ underlying_price = Num(100)
    /\ underlying_hv = Num(20)
    /\ now_tick = 0
    /\ opt_pc = "constructed"
    /\ orders = <<>>
    /\ raised = FALSE
    /\ selected = 0
    /\ iv_result = FALSE

(* run_trading_cycle up to the chain: no signal ends the cycle, otherwise
   the provider turns the snapshots into the chain; an empty chain ends
   the cycle. *)
FetchChain ==
    /\ cycle = "options" /\ bot_pc = "start"
    /\ IF trade_signal = 0
       THEN /\ bot_pc' = "finally"
            /\ UNCHANGED <<snapshots, chain>>
       ELSE \E snaps \in SnapshotLists :
               /\ snapshots' = snaps
               /\ chain' = ChainData(snaps, 1)
               /\ bot_pc' = IF chain' = <<>> THEN "finally" ELSE "chain"
    /\ UNCHANGED <<cycle, SUBMIT_ORDERS_TO_BROKER, broker_orders,
                   current_ticks, tick_is_new, db_rows, log_returns, db_open>>
    /\ UNCHANGED <<config, trade_signal, account_balance, underlying_price,
                   underlying_hv, now_tick, opt_pc, orders, raised, selected,
                   iv_result>>
    /\ UNCHANGED <<ma_vars, run_vars, alert_vars, hist_vars>>

(* orders_to_place = strategy.define_orders(...); an exception goes to the
   handler of the cycle. *)
CycleDefineOrders ==
    /\ cycle = "options" /\ bot_pc = "chain"
    /\ LET r == DefineOrdersResult(chain, trade_signal, account_balance,
                                   underlying_price, underlying_hv, now_tick,
                                   config)
       IN  /\ orders' = r.orders
           /\ raised' = r.raised
           /\ selected' = r.selected
           /\ bot_pc' = IF r.raised THEN "finally" ELSE "orders"
    /\ opt_pc' = "done"
    /\ UNCHANGED <<config, chain, trade_signal, account_balance,
                   underlying_price, underlying_hv, now_tick, iv_result>>
    /\ UNCHANGED <<cycle, SUBMIT_ORDERS_TO_BROKER, broker_orders,
                   current_ticks, tick_is_new, snapshots, db_rows,
                   log_returns, db_open>>
    /\ UNCHANGED <<ma_vars, run_vars, alert_vars, hist_vars>>

(* Step 7 of run_trading_cycle: the orders go to tradier_client when
   submission is enabled (at most MaxBulk of them), are only reported
   when there are none, and are logged to the database otherwise. *)
SubmitOrLog ==
    /\ cycle = "options" /\ bot_pc = "orders"
    /\ IF SubmitEnabled /\ orders # <<>>
       THEN /\ broker_orders' = IF Len(orders) > MaxBulk THEN broker_orders
                                ELSE broker_orders + Len(orders)
            /\ UNCHANGED <<db_rows, log_returns>>
       ELSE IF orders = <<>>
       THEN UNCHANGED <<broker_orders, db_rows, log_returns>>
       ELSE LET r == LogOrders(orders, 1, db_rows, log_returns)
            IN  /\ db_rows' = r.rows
                /\ log_returns' = r.rets
                /\ UNCHANGED broker_orders
    /\ bot_pc' = "finally"
    /\ UNCHANGED <<cycle, SUBMIT_ORDERS_TO_BROKER, current_ticks,
                   tick_is_new, snapshots, db_open>>
    /\ UNCHANGED <<ma_vars, opt_vars, run_vars, alert_vars, hist_vars>>

(* The finally clause of either cycle: the database connection closes. *)
CloseConnection ==
    /\ bot_pc = "finally"
    /\ db_open' = FALSE
    /\ bot_pc' = "ended"
    /\ UNCHANGED <<cycle, SUBMIT_ORDERS_TO_BROKER, broker_orders,
                   current_ticks, tick_is_new, snapshots, db_rows,
                   log_returns>>
    /\ UNCHANGED <<ma_vars, opt_vars, run_vars, alert_vars, hist_vars>>

(* Steps 4-5 of run_forex_trading_cycle: the historical bars initialize
   the strategy; too few bars or a failed initialization end the cycle. *)
ForexInitialize ==
    /\ cycle = "forex" /\ bot_pc = "start"
    /\ \E historical_bars \in BarLists :
          IF historical_bars # <<>> /\ Len(historical_bars) >= long_window
          THEN /\ initialize_with_historical_data(historical_bars)
               /\ ma_calls' = ma_calls + 1
               /\ bot_pc' = IF ma_ret' = "True" THEN "loop" ELSE "finally"
          ELSE /\ bot_pc' = "finally"
               /\ UNCHANGED ma_vars
    /\ UNCHANGED <<cycle, SUBMIT_ORDERS_TO_BROKER, broker_orders,
                   current_ticks, tick_is_new, snapshots, db_rows,
                   log_returns, db_open>>
    /\ UNCHANGED <<opt_vars, run_vars, alert_vars, hist_vars>>

(* IBClient.tickPrice on the API thread: the price is stored under its
   tick type, replacing the previous one. *)
tickPrice(tickType, price) ==
    /\ cycle = "forex" /\ bot_pc = "loop"
    /\ current_ticks' = [current_ticks EXCEPT ![tickType] = Num(price)]
    /\ tick_is_new' = TRUE
    /\ UNCHANGED <<cycle, SUBMIT_ORDERS_TO_BROKER, broker_orders, bot_pc,
                   snapshots, db_rows, log_returns, db_open>>
    /\ UNCHANGED <<ma_vars, opt_vars, run_vars, alert_vars, hist_vars>>

TickPriceCall ==
    \E tickType \in {"LAST", "BID", "ASK"}, price \in TickPrices :
        tickPrice(tickType, price)

(* The price the loop derives from the stored ticks, in half units: LAST
   when present and > 0, else the midpoint of BID and ASK when both are
   present and > 0, else None. *)
SignalPrice(ticks) ==
    IF ~IsNone(ticks.LAST) /\ ticks.LAST.v > 0
    THEN Num(HalfUnits * ticks.LAST.v)
    ELSE IF /\ ~IsNone(ticks.BID) /\ ~IsNone(ticks.ASK)
            /\ ticks.BID.v > 0 /\ ticks.ASK.v > 0
    THEN Num(ticks.BID.v + ticks.ASK.v)
    ELSE NoneVal

(* The print of line 465 formats bid_price and ask_price with ":.5f",
   which raises TypeError on None. *)
PrintRaises(ticks) == ~FormatsAsFloat(ticks.BID) \/ ~FormatsAsFloat(ticks.ASK)

(* One iteration of the "while True" loop, from get_last_tick_data to the
   sleep. *)
LoopIteration ==
    /\ cycle = "forex" /\ bot_pc = "loop"
    /\ ma_calls < MaxCalls
    /\ tick_is_new' = FALSE
    /\ LET current_price_for_signal == SignalPrice(current_ticks)
       IN  IF IsNone(current_price_for_signal)
           THEN UNCHANGED <<ma_vars, bot_pc, broker_orders, db_rows,
                            log_returns>>
           ELSE IF PrintRaises(current_ticks)
           THEN /\ bot_pc' = "finally"
                /\ UNCHANGED <<ma_vars, broker_orders, db_rows, log_returns>>
           ELSE /\ on_new_tick(current_price_for_signal.v)
                /\ ma_calls' = ma_calls + 1
                /\ UNCHANGED bot_pc
                /\ IF ma_ret' # "HOLD"
                   THEN LET r == LogSignal(db_rows, db_open, 0, ma_ret',
                                           current_price_for_signal)
                        IN  /\ db_rows' = r.rows
                            /\ log_returns' = Append(log_returns, r.ret)
                            /\ broker_orders' =
                                   IF SubmitEnabled THEN broker_orders + 1
                                   ELSE broker_orders
                   ELSE UNCHANGED <<broker_orders, db_rows, log_returns>>
    /\ UNCHANGED <<cycle, SUBMIT_ORDERS_TO_BROKER, current_ticks, snapshots,
                   db_open>>
    /\ UNCHANGED <<opt_vars, run_vars, alert_vars, hist_vars>>

(* KeyboardInterrupt or a lost connection ends the loop. *)
LoopInterrupted ==
    /\ cycle = "forex" /\ bot_pc = "loop"
    /\ bot_pc' = "finally"
    /\ UNCHANGED <<cycle, SUBMIT_ORDERS_TO_BROKER, broker_orders,
                   current_ticks, tick_is_new, snapshots, db_rows,
                   log_returns, db_open>>
    /\ UNCHANGED <<ma_vars, opt_vars, run_vars, alert_vars, hist_vars>>

BotNext ==
    \/ FetchChain
    \/ CycleDefineOrders
    \/ SubmitOrLog
    \/ CloseConnection
    \/ ForexInitialize
    \/ TickPriceCall
    \/ LoopIteration
    \/ LoopInterrupted

SpecBot == BotInit /\ [][BotNext]_vars

----------------------------------------------------------------------------
(* The alert API (src/api_services/alert_api.py): receive_alert and
   get_alerts on the in-memory alert_log. *)

(* s[start:] of a Python list: a negative start counts from the end and
   is clamped at the beginning; -0 is 0, the whole list. *)
PySliceFrom(s, start) ==
    LET n == Len(s)
        first == IF start < 0
                 THEN (IF n + start < 0 THEN 0 ELSE n + start)
                 ELSE (IF start > n THEN n ELSE start)
    IN  SubSeq(s, first + 1, n)

AlertMessages == {"order", "error"}

AlertInit ==
    /\ MAIdle
    /\ OptIdle
    /\ RunIdle
    /\ BotIdle
    /\ HistIdle
    /\ AlertIdle

(* receive_alert(alert): the alert is appended to alert_log; nothing is
   ever removed from the log. *)
receive_alert(message) ==
    /\ Len(alert_log) < MaxAlerts
    /\ alert_log' = Append(alert_log, [received |-> Len(alert_log) + 1,
                                       message  |-> message])
    /\ UNCHANGED <<alerts_limit, alerts_ret>>
    /\ UNCHANGED <<ma_vars, opt_vars, run_vars, bot_vars, hist_vars>>

ReceiveAlertCall == \E message \in AlertMessages : receive_alert(message)

(* get_alerts(limit): alert_log[-limit:] *)
get_alerts(limit) ==
    /\ alerts_limit' = limit
    /\ alerts_ret' = PySliceFrom(alert_log, 0 - limit)
    /\ UNCHANGED alert_log
    /\ UNCHANGED <<ma_vars, opt_vars, run_vars, bot_vars, hist_vars>>

GetAlertsCall == \E limit \in 0..(MaxAlerts + 1) : get_alerts(limit)

AlertNext == ReceiveAlertCall \/ GetAlertsCall

SpecAlerts == AlertInit /\ [][AlertNext]_vars

----------------------------------------------------------------------------
(* IBClient, one historical data request: the calling thread runs
   request_historical_bars and get_historical_bars while the API thread
   started by connect_to_ib delivers historicalData, historicalDataEnd
   and error callbacks for the same reqId.  Each step is one statement of
   either thread; the threads interleave between statements.

   gh_pc:  "idle" -> "wait" (the loop of line 229) -> "after_loop"
           (line 232) -> "timed_out" (line 234) -> "cancel" (lines 235-236)
           -> "returned" | "raised"
   api_pc: "idle" -> "streaming" -> "end_check" (line 171) -> "end_remove"
           (line 172) -> "done" | "raised" *)

HistInit ==
    /\ MAIdle
    /\ OptIdle
    /\ RunIdle
    /\ BotIdle
    /\ AlertIdle
    /\ HistIdle

(* Steps of the calling thread leave the API thread's position alone. *)
CallerStep ==
    /\ UNCHANGED <<ma_vars, opt_vars, run_vars, bot_vars, alert_vars>>
    /\ UNCHANGED <<historical_data, end_flag, api_pc, flag_seen>>

(* request_historical_bars(reqId): the request becomes active and is sent
   to the broker. *)
request_historical_bars ==
    /\ gh_pc = "idle"
    /\ ~active
    /\ historical_data' = 0
    /\ end_flag' = FALSE
    /\ active' = TRUE
    /\ api_pc' = "streaming"
    /\ gh_pc' = "wait"
    /\ UNCHANGED <<gh_ret, flag_seen>>
    /\ UNCHANGED <<ma_vars, opt_vars, run_vars, bot_vars, alert_vars>>

(* Line 229: the loop ends when the end flag is set or, whatever the
   flag, when the timeout has expired. *)
LoopExit ==
    /\ gh_pc = "wait"
    /\ gh_pc' = "after_loop"
    /\ UNCHANGED <<active, gh_ret>>
    /\ CallerStep

(* Line 232: the flag is read again. *)
RecheckFlag ==
    /\ gh_pc = "after_loop"
    /\ IF end_flag
       THEN /\ gh_pc' = "returned"
            /\ gh_ret' = "bars"
       ELSE /\ gh_pc' = "timed_out"
            /\ UNCHANGED gh_ret
    /\ UNCHANGED active
    /\ CallerStep

(* Line 234: "if reqId in self.active_requests" *)
CheckActive ==
    /\ gh_pc = "timed_out"
    /\ IF active
       THEN /\ gh_pc' = "cancel"
            /\ UNCHANGED gh_ret
       ELSE /\ gh_pc' = "returned"
            /\ gh_ret' = "None"
    /\ UNCHANGED active
    /\ CallerStep

(* Lines 235-237: cancelHistoricalData, then set.remove(reqId), which
   raises KeyError when reqId is no longer in the set. *)
CancelAndRemove ==
    /\ gh_pc = "cancel"
    /\ IF active
       THEN /\ active' = FALSE
            /\ gh_pc' = "returned"
            /\ gh_ret' = "None"
       ELSE /\ gh_pc' = "raised"
            /\ UNCHANGED <<active, gh_ret>>
    /\ CallerStep

(* Steps of the API thread leave the caller's position alone. *)
ApiStep ==
    /\ UNCHANGED <<ma_vars, opt_vars, run_vars, bot_vars, alert_vars>>
    /\ UNCHANGED <<gh_pc, gh_ret>>

(* The end flag is set while the caller is still in its loop. *)
FlagSeen == flag_seen \/ gh_pc = "wait"

(* historicalData(reqId, bar): one more bar, "data is coming in". *)
historicalData ==
    /\ api_pc = "streaming"
    /\ historical_data < MaxBars
    /\ historical_data' = historical_data + 1
    /\ end_flag' = FALSE
    /\ UNCHANGED <<active, api_pc, flag_seen>>
    /\ ApiStep

(* historicalDataEnd, line 170: the end flag is set. *)
historicalDataEnd ==
    /\ api_pc = "streaming"
    /\ end_flag' = TRUE
    /\ flag_seen' = FlagSeen
    /\ api_pc' = "end_check"
    /\ UNCHANGED <<historical_data, active>>
    /\ ApiStep

(* historicalDataEnd, line 171: "if reqId in self.active_requests" *)
EndCheckActive ==
    /\ api_pc = "end_check"
    /\ api_pc' = IF active THEN "end_remove" ELSE "done"
    /\ UNCHANGED <<historical_data, end_flag, active, flag_seen>>
    /\ ApiStep

(* historicalDataEnd, line 172: set.remove(reqId), KeyError when the
   caller has removed reqId in between. *)
EndRemove ==
    /\ api_pc = "end_remove"
    /\ IF active
       THEN /\ active' = FALSE
            /\ api_pc' = "done"
       ELSE /\ api_pc' = "raised"
            /\ UNCHANGED active
    /\ UNCHANGED <<historical_data, end_flag, flag_seen>>
    /\ ApiStep

(* error(reqId, errorCode, ...): for an active request the codes 162 and
   200 set the end flag; the request stays in active_requests. *)
error(errorCode) ==
    /\ api_pc = "streaming"
    /\ api_pc' = "done"
    /\ IF active /\ errorCode \in {NoDataCode, NoSecurityCode}
       THEN /\ end_flag' = TRUE
            /\ flag_seen' = FlagSeen
       ELSE UNCHANGED <<end_flag, flag_seen>>
    /\ UNCHANGED <<historical_data, active>>
    /\ ApiStep

ErrorCall == \E errorCode \in {NoDataCode, NoSecurityCode, 0} : error(errorCode)

HistNext ==
    \/ request_historical_bars
    \/ LoopExit
    \/ RecheckFlag
    \/ CheckActive
    \/ CancelAndRemove
    \/ historicalData
    \/ historicalDataEnd
    \/ EndCheckActive
    \/ EndRemove
    \/ ErrorCall

SpecHist == HistInit /\ [][HistNext]_vars

----------------------------------------------------------------------------
(* Properties of MovingAverageCrossoverStrategy, checked under SpecMA *)

(* A step that is an on_new_tick call. *)
TickStep == ma_calls' = ma_calls + 1 /\ ma_op' = "tick"

(* A step that is an on_new_tick call the strategy accepts. *)
AcceptedTickStep == TickStep /\ data_initialized /\ ma_arg' > 0

(* C1: on an accepted tick the strategy returns BUY and sets position to 1
   exactly when the stored means before the tick satisfy short <= long, the
   means after the tick satisfy short > long, and position <= 0; it returns
   SELL and sets position to -1 exactly when the means before satisfy
   short >= long, the means after satisfy short < long, and position >= 0;
   otherwise it returns HOLD and position is unchanged. *)
C1_CrossoverSignal ==
    [][AcceptedTickStep =>
        LET buy  == /\ short_ma.v <= long_ma.v
                    /\ short_ma'.v > long_ma'.v
                    /\ position <= 0
            sell == /\ short_ma.v >= long_ma.v
                    /\ short_ma'.v < long_ma'.v
                    /\ position >= 0
        IN  /\ short_ma.k = "num" /\ long_ma.k = "num"
            /\ short_ma'.k = "num" /\ long_ma'.k = "num"
            /\ (ma_ret' = "BUY" <=> buy)
            /\ (buy => position' = 1)
            /\ (ma_ret' = "SELL" <=> sell)
            /\ (sell => position' = 0 - 1)
            /\ (~buy /\ ~sell => ma_ret' = "HOLD" /\ position' = position)
    ]_vars

(* An accepted tick has just returned BUY and the strategy is long. *)
C1_Witness ==
    /\ ma_op = "tick" /\ data_initialized /\ ma_arg > 0
    /\ ma_ret = "BUY" /\ position = 1

(* C5: the first on_new_tick call after a successful
   initialize_with_historical_data returns HOLD and leaves position
   unchanged. *)
C5_FirstTickHolds ==
    [][(ma_fresh /\ TickStep) =>
        (ma_ret' = "HOLD" /\ position' = position)]_vars

(* C6: in every reachable state position is one of -1, 0, 1. *)
C6_PositionDomain == position \in {0 - 1, 0, 1}

(* A step that is an initialize_with_historical_data call. *)
InitializeStep == ma_calls' = ma_calls + 1 /\ ma_op' = "init"

(* C18: initialize_with_historical_data with fewer than long_window bars
   returns False and changes nothing, so on a fresh strategy the buffer
   stays empty and the means unset; while the strategy is uninitialized
   every on_new_tick returns HOLD and changes nothing; and only a
   successful initialization makes the strategy initialized. *)
C18_TooFewBarsStaysUninitialized ==
    [][/\ (InitializeStep /\ Len(ma_arg') < long_window) =>
              /\ ma_ret' = "False"
              /\ UNCHANGED <<prices, short_ma, long_ma, data_initialized,
                             position>>
              /\ ma_calls = 0 =>
                    /\ prices' = <<>>
                    /\ short_ma' = NoneVal /\ long_ma' = NoneVal
                    /\ ~data_initialized'
       /\ (TickStep /\ ~data_initialized) =>
              /\ ma_ret' = "HOLD"
              /\ UNCHANGED <<prices, short_ma, long_ma, data_initialized,
                             position>>
       /\ (~data_initialized /\ data_initialized') =>
              (ma_op' = "init" /\ ma_ret' = "True")
    ]_vars

(* A fresh strategy has just been given one bar fewer than long_window and
   has refused it. *)
C18_Witness ==
    /\ ma_calls = 1 /\ ma_op = "init" /\ ma_ret = "False"
    /\ Len(ma_arg) = long_window - 1 /\ ma_arg # <<>>
    /\ prices = <<>> /\ short_ma = NoneVal /\ ~data_initialized

(* C19: an initialize_with_historical_data call that returns False leaves
   the price buffer, the stored means and the initialized flag as they were
   before the call. *)
C19_FailedInitChangesNothing ==
    [][(InitializeStep /\ ma_ret' = "False") =>
          UNCHANGED <<prices, short_ma, long_ma, data_initialized>>]_vars

(* The close of the bar dated d. *)
CloseAt(bars, d) ==
    bars[CHOOSE i \in 1..Len(bars) : bars[i].date = d].close

(* The closes of the bars in chronological order (the dates of n bars are
   1..n). *)
ChronologicalCloses(bars) == [d \in 1..Len(bars) |-> CloseAt(bars, d)]

(* The step is a successful initialize_with_historical_data call. *)
InitializeSucceeds == InitializeStep /\ ma_ret' = "True"

(* cl[i] + ... + cl[Len(cl)] *)
RECURSIVE SumFrom(_, _)
SumFrom(cl, i) == IF i > Len(cl) THEN 0 ELSE cl[i] + SumFrom(cl, i + 1)

(* The stored means are the arithmetic means of the last short_window and
   of the last long_window of the closes cl (times short_window *
   long_window). *)
MeansOf(cl) ==
    /\ short_ma'.v = long_window * SumFrom(cl, Len(cl) - short_window + 1)
    /\ long_ma'.v  = short_window * SumFrom(cl, Len(cl) - long_window + 1)
    /\ short_ma'.k = "num" /\ long_ma'.k = "num"

(* C20 as stated: after every successful initialization, repeated ones
   included, the buffer holds exactly the most recent long_window closes in
   chronological order, the means are the means of the last short_window
   and long_window closes, and position is unchanged. *)
C20_BufferIsRecentCloses ==
    [][InitializeSucceeds =>
          LET closes == ChronologicalCloses(ma_arg')
              recent == LastN(closes, long_window)
          IN  /\ prices' = recent
              /\ MeansOf(closes)
              /\ position' = position
    ]_vars

(* C20 amended: after every successful initialization the buffer ends with
   the most recent long_window closes in chronological order, after
   whatever it held before the call (so it holds exactly those closes when
   it was empty before); the means and position are as stated. *)
C20_BufferEndsWithRecentCloses ==
    [][InitializeSucceeds =>
          LET closes == ChronologicalCloses(ma_arg')
              recent == LastN(closes, long_window)
          IN  /\ IF Len(prices) <= DequeSlack
                 THEN prices' = prices \o recent
                 ELSE LastN(prices', long_window) = recent
              /\ MeansOf(closes)
              /\ position' = position
    ]_vars

(* A second successful initialization has just been made: the buffer holds
   the closes of both, and the two halves differ. *)
C20_Witness ==
    /\ ma_calls = 2 /\ ma_op = "init" /\ ma_ret = "True"
    /\ Len(prices) = 2 * long_window
    /\ SubSeq(prices, 1, long_window) # LastN(prices, long_window)

(* C21: on_new_tick called with a price <= 0, or before any successful
   initialization, returns HOLD and leaves the price buffer, both means and
   position unchanged. *)
C21_RejectedTickIsNoOp ==
    [][(TickStep /\ (ma_arg' <= 0 \/ ~data_initialized)) =>
          /\ ma_ret' = "HOLD"
          /\ UNCHANGED <<prices, short_ma, long_ma, position>>]_vars

(* An initialized strategy holding prices has just been given the price 0
   and has answered HOLD. *)
C21_Witness ==
    /\ ma_op = "tick" /\ ma_arg = 0 /\ ma_ret = "HOLD"
    /\ data_initialized /\ prices # <<>>

----------------------------------------------------------------------------
(* Properties of AdvancedOptionsStrategy.define_orders, checked under
   SpecOrders *)

(* q is the floor of a / b, for b > 0. *)
IsFloor(q, a, b) == q * b <= a /\ a < (q + 1) * b

(* The contract passes every filter stage as the stages are documented, for
   the arguments of the call in the current state. *)
Survives(c) ==
    /\ trade_signal # 0
    /\ c.type = (IF trade_signal > 0 THEN "call" ELSE "put")
    /\ \E dte \in config.target_dte_min..config.target_dte_max :
          IsFloor(dte, c.expiration_date * TicksPerDay - now_tick, TicksPerDay)
    /\ \/ /\ c.delta.k \in {"num", "str"}
          /\ config.target_delta_min <= Abs(c.delta.v)
          /\ Abs(c.delta.v) <= config.target_delta_max
       \/ /\ c.delta.k = "absent"
          /\ config.target_delta_min <= 0 /\ 0 <= config.target_delta_max
    /\ PassesIvFilter(c, underlying_hv, config)
    /\ c.open_interest.k = "num"
    /\ c.open_interest.v >= config.min_open_interest
    /\ c.volume.k = "num" /\ c.volume.v >= config.min_volume
    /\ c.bid.k = "num" /\ c.bid.v > 0
    /\ c.ask.k = "num" /\ c.ask.v > 0
    /\ (c.ask.v - c.bid.v) * 100 <= config.max_bid_ask_spread_pct * c.ask.v

(* Twice the distance of |delta| from the midpoint of the delta bounds. *)
MidpointDistance(c) ==
    Abs(2 * Abs(c.delta.v)
        - (config.target_delta_min + config.target_delta_max))

(* C2: every order returned by define_orders names a contract of the chain
   that passes every filter stage (type = direction, DTE as the floor in
   whole days within its bounds, |delta| within its bounds, IV filter, open
   interest, volume, bid > 0, ask > 0, relative spread), all bounds
   inclusive. *)
C2_OrdersPassEveryFilter ==
    opt_pc = "done" =>
        \A k \in 1..Len(orders) :
            /\ orders[k].symbol \in 1..Len(chain)
            /\ Survives(chain[orders[k].symbol])

(* An order was returned for a contract whose DTE is exactly the lower
   bound. *)
C2_Witness ==
    /\ opt_pc = "done" /\ orders # <<>>
    /\ chain[orders[1].symbol].expiration_date = config.target_dte_min
    /\ now_tick = 0

(* C3: the selected contract is a survivor with the smallest distance of
   |delta| from the midpoint of the delta bounds and, among the survivors at
   that distance, the largest open interest. *)
C3_SelectsClosestThenHighestOI ==
    (opt_pc = "done" /\ selected # 0) =>
        /\ selected \in 1..Len(chain)
        /\ Survives(chain[selected])
        /\ \A j \in 1..Len(chain) :
              Survives(chain[j]) =>
                 /\ MidpointDistance(chain[selected])
                       <= MidpointDistance(chain[j])
                 /\ (MidpointDistance(chain[selected])
                       = MidpointDistance(chain[j])
                     => chain[selected].open_interest.v
                           >= chain[j].open_interest.v)

(* Two survivors are equidistant from the midpoint and the one selected is
   the later one in the chain, with the higher open interest. *)
C3_Witness ==
    /\ opt_pc = "done" /\ selected # 0
    /\ \E i \in 1..Len(chain) :
          /\ i < selected
          /\ Survives(chain[i])
          /\ MidpointDistance(chain[i]) = MidpointDistance(chain[selected])
          /\ chain[i].open_interest.v < chain[selected].open_interest.v

(* C4: every returned order is for the selected contract with quantity
   floor(account_balance * risk_per_trade_pct / (ask * 100)); when that
   quantity is 0 no order is returned (balance 10,000, risk 0.01: ask 2.00
   gives no order, ask 0.50 gives quantity 2). *)
C4_SizingOfSelected ==
    opt_pc = "done" =>
        /\ \A k \in 1..Len(orders) :
              /\ orders[k].symbol = selected
              /\ selected # 0
              /\ IsFloor(orders[k].quantity,
                         account_balance * config.risk_per_trade_pct,
                         100 * chain[selected].ask.v)
        /\ selected # 0 =>
              /\ IsFloor(0, account_balance * config.risk_per_trade_pct,
                         100 * chain[selected].ask.v)
                 => orders = <<>>
              /\ (account_balance = 10000 /\ config.risk_per_trade_pct = 1)
                 => /\ chain[selected].ask.v = 200 => orders = <<>>
                    /\ (chain[selected].ask.v = 50 /\ orders # <<>>)
                       => orders[1].quantity = 2

(* The selected contract is too expensive for the risk budget, no order is
   returned, and another survivor would have been affordable. *)
C4_Witness ==
    /\ opt_pc = "done" /\ selected # 0 /\ orders = <<>> /\ ~raised
    /\ account_balance = 10000
    /\ chain[selected].ask.v = 200
    /\ \E j \in 1..Len(chain) :
          Survives(chain[j]) /\ chain[j].ask.v = 50

(* Every optional field of the contract is a number or is absent. *)
NumbersOrAbsent(c) ==
    \A f \in {"delta", "implied_volatility", "iv_percentile",
               "open_interest", "volume", "bid", "ask"} :
        c[f].k \in {"num", "absent"}

(* The selected contract survived and its price fits at least once into
   the risk budget account_balance * risk_per_trade_pct. *)
SelectedIsSizable ==
    /\ selected # 0
    /\ Survives(chain[selected])
    /\ account_balance * config.risk_per_trade_pct
          >= 100 * chain[selected].ask.v

(* C14: for a chain whose contract fields are numbers or absent, when a
   contract survives and the quantity of the selected one is >= 1,
   define_orders returns normally exactly one order (selected symbol,
   buy_to_open, market, the computed quantity, estimated_cost =
   ask * quantity * 100, a tag naming the direction); in every other case
   it returns no order; it never returns more than one. *)
C14_OneOrderWhenSizable ==
    (opt_pc = "done" /\ \A i \in 1..Len(chain) : NumbersOrAbsent(chain[i]))
    => /\ Len(orders) <= 1
       /\ ~raised
       /\ IF SelectedIsSizable
          THEN /\ Len(orders) = 1
               /\ orders[1].symbol = selected
               /\ orders[1].side = "buy_to_open"
               /\ orders[1].type = "market"
               /\ IsFloor(orders[1].quantity,
                          account_balance * config.risk_per_trade_pct,
                          100 * chain[selected].ask.v)
               /\ orders[1].estimated_cost
                     = chain[selected].ask.v * orders[1].quantity
               /\ orders[1].tag
                     = (IF trade_signal > 0 THEN "call" ELSE "put")
          ELSE orders = <<>>

(* C15: every returned order has a quantity >= 1 and an estimated cost
   within account_balance * risk_per_trade_pct, whatever the sign of the
   balance. *)
C15_PositiveQuantityWithinBudget ==
    opt_pc = "done" =>
        \A k \in 1..Len(orders) :
            /\ orders[k].quantity >= 1
            /\ orders[k].estimated_cost * 100
                  <= account_balance * config.risk_per_trade_pct

(* C16: define_orders returns the empty list without raising whenever the
   chain is absent or empty, the underlying price is absent, or the latest
   positions value is zero, whatever the other arguments are. *)
C16_NoInputsNoOrders ==
    (/\ opt_pc = "done"
     /\ (chain = <<>> \/ underlying_price.k = "none" \/ trade_signal = 0))
    => (orders = <<>> /\ ~raised)

(* The underlying price is absent, the chain holds a contract that passes
   every filter for the signalled direction, and nothing was returned. *)
C16_Witness ==
    /\ opt_pc = "done" /\ underlying_price.k = "none"
    /\ \E j \in 1..Len(chain) : Survives(chain[j])
    /\ orders = <<>> /\ ~raised

(* The chain without its i-th contract. *)
Remove(ch, i) ==
    [j \in 1..(Len(ch) - 1) |-> IF j < i THEN ch[j] ELSE ch[j + 1]]

(* What define_orders hands back for chain ch: whether it raised and, for
   each order, the contract it names and the quantity. *)
Outcome(ch) ==
    LET r == DefineOrdersResult(ch, trade_signal, account_balance,
                                underlying_price, underlying_hv, now_tick,
                                config)
    IN  [ raised |-> r.raised,
          picks  |-> [k \in 1..Len(r.orders) |->
                        <<ch[r.orders[k].symbol], r.orders[k].quantity>>] ]

(* The outcome of the call in the current state. *)
ThisOutcome ==
    [ raised |-> raised,
      picks  |-> [k \in 1..Len(orders) |->
                    <<chain[orders[k].symbol], orders[k].quantity>>] ]

UnparsablePercentile(c) ==
    config.iv_filter_mode = "percentile" /\ c.iv_percentile.k = "bad"

(* C17 as stated: a contract with an unparsable delta, an unparsable IV or
   (in percentile mode) an unparsable percentile is never selected, and the
   result equals the result on the chain with that contract removed. *)
C17_UnparsableContractIgnored ==
    opt_pc = "done" =>
        \A i \in 1..Len(chain) :
            (\/ chain[i].delta.k = "bad"
             \/ chain[i].implied_volatility.k = "bad"
             \/ UnparsablePercentile(chain[i]))
            => /\ selected # i
               /\ ThisOutcome = Outcome(Remove(chain, i))

(* C17 amended: the same, the unparsable percentile counting only for a
   contract that has an implied_volatility value; a contract without one
   passes the IV filter before its percentile is read. *)
C17_UnparsableContractIgnoredWhenIvPresent ==
    opt_pc = "done" =>
        \A i \in 1..Len(chain) :
            (\/ chain[i].delta.k = "bad"
             \/ chain[i].implied_volatility.k = "bad"
             \/ /\ UnparsablePercentile(chain[i])
                /\ chain[i].implied_volatility.k \notin {"absent", "none"})
            => /\ selected # i
               /\ ThisOutcome = Outcome(Remove(chain, i))

(* In percentile mode the first contract has a numeric IV and an unparsable
   percentile, and the order names the second contract. *)
C17_Witness ==
    /\ opt_pc = "done" /\ Len(chain) = 2
    /\ UnparsablePercentile(chain[1])
    /\ chain[1].implied_volatility.k = "num"
    /\ orders # <<>> /\ orders[1].symbol = 2 /\ ~raised

----------------------------------------------------------------------------
(* Properties of AdvancedOptionsStrategy._passes_iv_filter, checked under
   SpecIV *)

IvField == chain[1].implied_volatility
PercentileField == chain[1].iv_percentile

(* C7: a contract with no implied_volatility value passes the IV filter in
   every mode, and a contract whose implied_volatility is present but not
   parsable as a number fails it in every mode. *)
C7_MissingIvPassesUnparsableFails ==
    opt_pc = "iv_done" =>
        /\ IvField.k \in {"absent", "none"} => iv_result
        /\ IvField.k = "bad" => ~iv_result

(* In percentile mode a contract with neither an IV nor a percentile has
   passed. *)
C7_Witness ==
    /\ opt_pc = "iv_done"
    /\ config.iv_filter_mode = "percentile"
    /\ IvField.k = "absent" /\ PercentileField.k = "absent"
    /\ iv_result

(* C8 as stated: with iv_filter_mode 'none' the filter returns true for
   every contract, whatever its implied_volatility field holds. *)
C8_NoneModeAlwaysPasses ==
    (opt_pc = "iv_done" /\ config.iv_filter_mode = "none") => iv_result

(* C8 amended: with iv_filter_mode 'none' the filter returns true exactly
   for the contracts whose implied_volatility is absent or parses as a
   number; a present, non-numeric implied_volatility fails. *)
C8_NoneModePassesUnlessUnparsable ==
    (opt_pc = "iv_done" /\ config.iv_filter_mode = "none") =>
        (iv_result <=> IvField.k # "bad")

(* In mode 'none' a contract with an unparsable IV has been rejected. *)
C8_Witness ==
    /\ opt_pc = "iv_done" /\ config.iv_filter_mode = "none"
    /\ IvField.k = "bad" /\ ~iv_result

(* The required field of the mode is missing or invalid. *)
RequiredFieldMissing ==
    \/ /\ config.iv_filter_mode = "percentile"
       /\ PercentileField.k \in {"absent", "none", "bad"}
    \/ /\ config.iv_filter_mode = "vs_underlying_hv"
       /\ (IsNone(underlying_hv) \/ underlying_hv.v <= 0)

(* C9 as stated: in percentile mode a contract whose iv_percentile is absent
   or non-numeric fails, and in vs_underlying_hv mode every contract fails
   when the HV is absent or <= 0, whatever the implied_volatility field
   holds. *)
C9_MissingRequiredFieldFails ==
    (opt_pc = "iv_done" /\ RequiredFieldMissing) => ~iv_result

(* C9 amended: the same, for every contract that has an implied_volatility
   value (numeric or not); a contract without one passes. *)
C9_MissingRequiredFieldFailsWhenIvPresent ==
    (opt_pc = "iv_done" /\ RequiredFieldMissing) =>
        (iv_result <=> IvField.k \in {"absent", "none"})

(* In percentile mode a contract with a numeric IV and no percentile has
   been rejected. *)
C9_Witness ==
    /\ opt_pc = "iv_done" /\ config.iv_filter_mode = "percentile"
    /\ IvField.k = "num" /\ PercentileField.k = "absent"
    /\ ~iv_result

(* C10: for a contract with a numeric IV the filter returns true exactly
   when the bounds of the mode hold, inclusively: fixed_range on IV,
   percentile on a numeric percentile, vs_underlying_hv on IV / HV with
   HV > 0; always in mode none. *)
C10_ModeTable ==
    (opt_pc = "iv_done" /\ IvField.k \in {"num", "str"}) =>
        LET mode == config.iv_filter_mode
            iv   == IvField.v
            p    == PercentileField
            hv   == underlying_hv
        IN  iv_result <=>
              \/ mode = "none"
              \/ /\ mode = "fixed_range"
                 /\ config.target_iv_min <= iv /\ iv <= config.target_iv_max
              \/ /\ mode = "percentile"
                 /\ p.k \in {"num", "str"}
                 /\ config.target_iv_percentile_min <= p.v
                 /\ p.v <= config.target_iv_percentile_max
              \/ /\ mode = "vs_underlying_hv"
                 /\ hv.k = "num" /\ hv.v > 0
                 /\ config.iv_to_hv_ratio_min * hv.v <= 100 * iv
                 /\ 100 * iv <= config.iv_to_hv_ratio_max * hv.v

(* In fixed_range mode an IV exactly on the upper bound, above the lower
   bound, has passed. *)
C10_Witness ==
    /\ opt_pc = "iv_done" /\ config.iv_filter_mode = "fixed_range"
    /\ IvField.k = "num"
    /\ IvField.v = config.target_iv_max
    /\ config.target_iv_min < config.target_iv_max
    /\ iv_result

----------------------------------------------------------------------------
(* Properties of the AdvancedOptionsStrategy object, checked under
   SpecLife *)

(* The delta field of the one contract of the chain. *)
DeltaField == chain[1].delta

ZeroInDeltaBounds ==
    config.target_delta_min <= 0 /\ 0 <= config.target_delta_max

(* C11 as stated: a contract whose delta is missing or non-numeric is
   treated like one with delta 0.0: it survives the delta filter exactly
   when target_delta_min <= 0 <= target_delta_max. *)
C11_BadDeltaReadAsZero ==
    (opt_pc = "done" /\ DeltaField.k \in {"absent", "none", "bad"}) =>
        (selected # 0 <=> ZeroInDeltaBounds)

(* C11 amended: a contract with no delta key survives the delta filter
   exactly when target_delta_min <= 0 <= target_delta_max; a contract whose
   delta is present but not a number (None, an unparsable string) is
   excluded whatever the bounds; with bounds [0.30, 0.50] all of them are
   excluded and no order is returned. *)
C11_MissingDeltaIsZeroBadDeltaExcluded ==
    opt_pc = "done" =>
        /\ DeltaField.k = "absent" => (selected # 0 <=> ZeroInDeltaBounds)
        /\ DeltaField.k \in {"none", "bad"} => selected = 0
        /\ (DeltaField.k \in {"absent", "none", "bad"}
            /\ config.target_delta_min = 30 /\ config.target_delta_max = 50)
           => (selected = 0 /\ orders = <<>> /\ ~raised)

(* With delta bounds that contain 0, a contract with an unparsable delta
   has been excluded. *)
C11_Witness ==
    /\ opt_pc = "done" /\ DeltaField.k = "bad"
    /\ ZeroInDeltaBounds /\ selected = 0

(* C12: construction fails exactly when the caller's dict gives an
   iv_filter_mode that is not one of the four values (an explicit None
   included), and a failed construction yields no object: no call follows
   it; with the mode omitted construction succeeds under fixed_range. *)
C12_ConstructionValidatesMode ==
    [][/\ opt_pc # "failed"
       /\ opt_pc = "unbuilt" =>
             LET given == "iv_filter_mode" \in DOMAIN config
             IN  /\ opt_pc' \in {"constructed", "failed"}
                 /\ opt_pc' = "failed" <=>
                       (given /\ config.iv_filter_mode \notin
                          {"fixed_range", "percentile", "vs_underlying_hv",
                           "none"})
                 /\ given => config'.iv_filter_mode = config.iv_filter_mode
                 /\ ~given => config'.iv_filter_mode = "fixed_range"
    ]_vars

(* Construction with an explicit None mode has failed. *)
C12_Witness == opt_pc = "failed" /\ config.iv_filter_mode = ModeNone

(* C13: in every state of a constructed strategy, after any sequence of
   update_config and define_orders calls, config['iv_filter_mode'] is one of
   the four enumerated values. *)
C13_ModeAlwaysValid ==
    Built => config.iv_filter_mode \in
                {"fixed_range", "percentile", "vs_underlying_hv", "none"}

----------------------------------------------------------------------------
(* Properties of a run of the forex strategy, checked under SpecRun *)

(* The arithmetic mean of the last w prices of the buffer, on the scale of
   the stored means. *)
MeanOfLast(w) ==
    (SumSeq(SubSeq(prices, Len(prices) - w + 1, Len(prices)))
       * short_window * long_window) \div w

(* The last call was a tick the strategy accepted. *)
AcceptedTick == ma_op = "tick" /\ data_initialized /\ ma_arg > 0

(* C25: for short_window <= long_window, an initialized strategy's buffer
   holds between long_window and long_window + 5 prices; an accepted tick
   appends its price at the end, evicting only the oldest price at
   capacity; and after it the stored means are the arithmetic means of the
   last short_window and long_window buffered prices (so neither "not
   enough points" branch was taken). *)
C25_BufferAndMeans ==
    (short_window <= long_window /\ data_initialized) =>
        /\ Len(prices) >= long_window
        /\ Len(prices) <= long_window + DequeSlack
        /\ AcceptedTick =>
              /\ prices = IF Len(run_prev) = long_window + DequeSlack
                          THEN Tail(run_prev) \o <<ma_arg>>
                          ELSE run_prev \o <<ma_arg>>
              /\ short_ma = Num(MeanOfLast(short_window))
              /\ long_ma = Num(MeanOfLast(long_window))

(* A tick was accepted on a full buffer: the oldest price left. *)
C25_Witness ==
    /\ short_window <= long_window
    /\ AcceptedTick
    /\ Len(run_prev) = long_window + DequeSlack
    /\ prices = Tail(run_prev) \o <<ma_arg>>
    /\ prices # run_prev

(* C26: when update_position is never called, the non-HOLD signals of
   successive on_new_tick calls alternate: no two consecutive signals are
   equal. *)
C26_SignalsAlternate ==
    \A i \in 1..(Len(signals) - 1) : signals[i] # signals[i + 1]

(* A BUY, a SELL and a BUY again were returned in one run. *)
C26_Witness ==
    /\ Len(signals) >= 3
    /\ signals[1] = "BUY"
    /\ signals[2] = "SELL"
    /\ signals[3] = "BUY"

----------------------------------------------------------------------------
(* Properties of the bot process, checked under SpecBot *)

(* C22: with SUBMIT_ORDERS_TO_BROKER false no order is handed to a broker
   on any path of either cycle, whatever signals and orders the strategies
   produce. *)
C22_NoSubmissionWhenDisabled ==
    ~SUBMIT_ORDERS_TO_BROKER => broker_orders = 0

(* The options cycle ended with an order defined, submission disabled and
   nothing sent. *)
C22_Witness ==
    /\ ~SUBMIT_ORDERS_TO_BROKER
    /\ cycle = "options"
    /\ bot_pc = "ended"
    /\ orders # <<>>
    /\ broker_orders = 0

(* The forex loop got a BUY or SELL with submission disabled and sent
   nothing. *)
C22_ForexWitness ==
    /\ ~SUBMIT_ORDERS_TO_BROKER
    /\ cycle = "forex"
    /\ ma_ret \in {"BUY", "SELL"}
    /\ broker_orders = 0

(* C23: a field the data source left None reaches the selector as missing:
   the contract built from a snapshot whose implied volatility or delta is
   None has that field absent or None, so the contract passes the IV filter
   by the missing-IV rule. *)
C23_AbsentFieldStaysMissing ==
    cycle = "options" =>
        \A j \in 1..Len(chain) :
            LET snapshot == snapshots[chain[j].symbol]
            IN  /\ IsNone(snapshot.implied_volatility) =>
                      /\ IsNone(Get(chain[j].implied_volatility))
                      /\ PassesIvFilter(chain[j], underlying_hv, config)
                /\ IsNone(snapshot.delta) => IsNone(Get(chain[j].delta))

(* C27: in every iteration of the polling loop the signal price is LAST
   when present and > 0, else the midpoint of BID and ASK when both are
   present and > 0, else none; and when there is a signal price it is
   passed to on_new_tick in that iteration and the loop goes on, whatever
   ticks have arrived so far. *)
C27_SignalPriceFedAndLoopContinues ==
    [][LoopIteration =>
         (~IsNone(SignalPrice(current_ticks)) =>
              /\ ma_op' = "tick"
              /\ ma_arg' = SignalPrice(current_ticks).v
              /\ ma_calls' = ma_calls + 1
              /\ bot_pc' = "loop")]_vars

(* C28: an iteration of the polling loop before which no tick has arrived
   since the previous iteration does not call on_new_tick and appends
   nothing to the strategy's buffer. *)
C28_StaleIterationFeedsNothing ==
    [][(LoopIteration /\ ~tick_is_new) =>
         UNCHANGED <<prices, ma_calls>>]_vars

(* The buy_to_open orders among ords. *)
OpeningBuys(ords) ==
    {i \in 1..Len(ords) : ords[i].side = "buy_to_open"}

(* C30: in run_trading_cycle with submission disabled, once the logging
   step is over every buy_to_open order the strategy defined has been
   logged: log_signal returned True for each and trading_signals holds
   exactly one row for the order's symbol. *)
C30_EveryOrderLogged ==
    ( /\ cycle = "options"
      /\ ~SUBMIT_ORDERS_TO_BROKER
      /\ bot_pc \in {"finally", "ended"} ) =>
        /\ Len(log_returns) = Cardinality(OpeningBuys(orders))
        /\ \A k \in 1..Len(log_returns) : log_returns[k]
        /\ \A i \in OpeningBuys(orders) :
              Cardinality({k \in 1..Len(db_rows) :
                             db_rows[k].asset_symbol = orders[i].symbol}) = 1

----------------------------------------------------------------------------
(* Properties of the alert API, checked under SpecAlerts *)

(* The k most recently received alerts, in order of receipt. *)
MostRecent(log, k) == SubSeq(log, Len(log) - k + 1, Len(log))

(* C24: get_alerts(limit) returns the min(limit, n) most recently received
   alerts in order of receipt, for every limit >= 0; limit 0 returns no
   alerts. *)
C24_ReturnsAtMostLimit ==
    [][\A limit \in 0..(MaxAlerts + 1) :
          get_alerts(limit) =>
              alerts_ret' = MostRecent(alert_log,
                                       IF limit < Len(alert_log) THEN limit
                                       ELSE Len(alert_log))]_vars

----------------------------------------------------------------------------
(* Properties of IBClient.get_historical_bars, checked under SpecHist *)

(* C29: get_historical_bars never raises; when it has returned, reqId is
   not in active_requests; and it returns None only if the end flag was
   never set before the timeout expired - under every interleaving with
   the API thread's callbacks for the same reqId. *)
C29_GetHistoricalBarsSafe ==
    /\ gh_pc # "raised"
    /\ gh_pc = "returned" => ~active
    /\ (gh_pc = "returned" /\ gh_ret = "None") => ~flag_seen

(* C29, first part alone: get_historical_bars never raises. *)
C29_NeverRaises == gh_pc # "raised"

====
